---- MODULE Spec2Model ----
(***************************************************************************)
(* A model of the two Ansible modules open_excel.py (read_xl_content,      *)
(* update_xl_content) and search_excel.py (search_xl_content).             *)
(*                                                                         *)
(* One run of a module is one call: the workbook is loaded from the file   *)
(* system, read / scanned / mutated in memory and, for an update, saved    *)
(* once.  A playbook may read the destination back in the task after an    *)
(* update.  update_xl_content is modelled step by step (load, preparation, *)
(* one step per batch entry, save) so that the in-memory workbook and the  *)
(* file system can be told apart; read_xl_content and search_xl_content    *)
(* do not write anything and are modelled as one action each, their loops  *)
(* being folded by recursive operators that carry the loop variables.      *)
(*                                                                         *)
(* Python text (str) is a sequence of one-character strings; file paths    *)
(* and sheet names, which are only compared and concatenated, are strings. *)
(***************************************************************************)
EXTENDS Integers, Sequences, FiniteSets, TLC

VARIABLES
    fs,             \* the file system: the workbook on disk of each path that exists
    pc,             \* position of the running call
    args,           \* the arguments of the call
    ret,            \* what the call returned (or raised)
    wb,             \* the workbook loaded in memory by update_xl_content
    dest_filename,  \* update_xl_content: the resolved destination
    l_op,           \* update_xl_content: the effective mode
    row_no,         \* update_xl_content: the current target row
    idx,            \* update_xl_content: number of batch entries applied
    saves,          \* number of times wb.save wrote a file
    prev            \* the task of the playbook before the current one

vars == <<fs, pc, args, ret, wb, dest_filename, l_op, row_no, idx, saves, prev>>

(***************************************************************************)
(* Bounds of the model.                                                    *)
(***************************************************************************)
MaxBatch == 2
MaxEnd == 3

(***************************************************************************)
(* Python values and text.                                                 *)
(***************************************************************************)
NoneV == [t |-> "none"]
IntV(n) == [t |-> "int", v |-> n]
StrV(s) == [t |-> "str", v |-> s]

DigitChar(d) ==
    CASE d = 0 -> "0" [] d = 1 -> "1" [] d = 2 -> "2" [] d = 3 -> "3"
      [] d = 4 -> "4" [] d = 5 -> "5" [] d = 6 -> "6" [] d = 7 -> "7"
      [] d = 8 -> "8" [] d = 9 -> "9"

RECURSIVE NatStr(_)
NatStr(n) == IF n < 10 THEN <<DigitChar(n)>>
             ELSE NatStr(n \div 10) \o <<DigitChar(n % 10)>>

\* str(n) of a Python int
IntStr(n) == IF n < 0 THEN <<"-">> \o NatStr(0 - n) ELSE NatStr(n)

\* str(v): None gives 'None', an int its decimal digits, a str itself
PyStr(v) ==
    CASE v.t = "none" -> <<"N", "o", "n", "e">>
      [] v.t = "int" -> IntStr(v.v)
      [] v.t = "str" -> v.v

Digits == {"0", "1", "2", "3", "4", "5", "6", "7", "8", "9"}

DigitVal(c) == CHOOSE d \in 0..9 : DigitChar(d) = c

RECURSIVE ParseNat(_)
ParseNat(s) == IF Len(s) = 0 THEN 0
               ELSE 10 * ParseNat(SubSeq(s, 1, Len(s) - 1)) + DigitVal(s[Len(s)])

Ok(v) == [ok |-> TRUE, v |-> v]
Raise(e) == [ok |-> FALSE, exc |-> e]

\* int(v): an int is itself, a str of digits (with an optional minus sign)
\* is parsed, anything else raises
PyInt(v) ==
    CASE v.t = "int" -> Ok(v.v)
      [] v.t = "none" -> Raise("TypeError")
      [] v.t = "str" ->
            LET s == v.v
                neg == Len(s) > 0 /\ s[1] = "-"
                body == IF neg THEN Tail(s) ELSE s
            IN IF Len(body) > 0 /\ \A i \in 1..Len(body) : body[i] \in Digits
               THEN Ok(IF neg THEN 0 - ParseNat(body) ELSE ParseNat(body))
               ELSE Raise("ValueError")

\* d[k] of a dict (a function on the keys present)
PyGet(d, k) == IF k \in DOMAIN d THEN Ok(d[k]) ELSE Raise("KeyError")

EmptyFn == [k \in {} |-> TRUE]

Max(S) == CHOOSE m \in S : \A x \in S : x <= m

(***************************************************************************)
(* The workbook: a sequence of sheets; a sheet has a name and the cells    *)
(* it holds, as openpyxl's Worksheet._cells, keyed by <<row, column>>.     *)
(***************************************************************************)
NoColor == "None"
DefaultFont == [color |-> NoColor, bold |-> FALSE, italic |-> FALSE, underline |-> "None"]
DefaultFill == "None"
EmptyCell == [value |-> NoneV, font |-> DefaultFont, fill |-> DefaultFill]

\* Worksheet.max_row / max_column: 1 for a sheet without cells
max_row(ws) == IF DOMAIN ws.cells = {} THEN 1 ELSE Max({p[1] : p \in DOMAIN ws.cells})
max_column(ws) == IF DOMAIN ws.cells = {} THEN 1 ELSE Max({p[2] : p \in DOMAIN ws.cells})

\* the cell ws.cell(row=r, column=c) gives for r, c >= 1: the one held or a new one
CellAt(ws, r, c) == IF <<r, c>> \in DOMAIN ws.cells THEN ws.cells[<<r, c>>] ELSE EmptyCell

PutCell(ws, r, c, cell) == [ws EXCEPT !.cells = (<<r, c>> :> cell) @@ ws.cells]

\* wb.get_sheet_names()
get_sheet_names(book) == [i \in 1..Len(book) |-> book[i].name]

HasSheet(book, name) == \E i \in 1..Len(book) : book[i].name = name
SheetPos(book, name) == CHOOSE i \in 1..Len(book) : book[i].name = name
\* wb.get_sheet_by_name(name), for a name the workbook has
get_sheet_by_name(book, name) == book[SheetPos(book, name)]

\* insert_rows with the limit off by one: the row at idx stays
insert_rows_below(ws, idx_row) ==
    LET moved(p) == ~(idx_row # 0 /\ p[1] <= idx_row)
        target == {IF moved(p) THEN <<p[1] + 1, p[2]>> ELSE p : p \in DOMAIN ws.cells}
        origin(q) == CHOOSE p \in DOMAIN ws.cells :
                        q = (IF moved(p) THEN <<p[1] + 1, p[2]>> ELSE p)
    IN [ws EXCEPT !.cells = [q \in target |-> ws.cells[origin(q)]]]

\* Worksheet.insert_rows(idx, amount=1): openpyxl moves down by one every
\* cell whose row is not below idx (an idx of 0 is "no lower limit")
insert_rows(ws, idx_row) ==
    LET moved(p) == ~(idx_row # 0 /\ p[1] < idx_row)
        target == {IF moved(p) THEN <<p[1] + 1, p[2]>> ELSE p : p \in DOMAIN ws.cells}
        origin(q) == CHOOSE p \in DOMAIN ws.cells :
                        q = (IF moved(p) THEN <<p[1] + 1, p[2]>> ELSE p)
    IN [ws EXCEPT !.cells = [q \in target |-> ws.cells[origin(q)]]]

\* what wb.save writes and load_workbook reads back: the sheets in order,
\* without the cells that hold neither a value nor a style
Persist(book) ==
    [i \in 1..Len(book) |->
        [book[i] EXCEPT !.cells =
            [p \in {q \in DOMAIN book[i].cells : book[i].cells[q] # EmptyCell}
                |-> book[i].cells[p]]]]

(***************************************************************************)
(* update_xl_content                                                       *)
(***************************************************************************)
Return(code, val) == [kind |-> "return", code |-> code, val |-> val]
Raised(e) == [kind |-> "raise", exc |-> e]
NoReturn == [kind |-> "none"]
NoArgs == [fn |-> "none"]
NoWb == <<>>
EmptyDict == <<>>

ErrAccessFile == "Error accessing excel file"
ErrAccessSheet == "Error accessing specified excel sheet"
ErrUpdating == "Error updating excel file"

\* paths on which wb.save raises IOError
ReadOnlyPath == "/ro/out.xlsx"
ReadOnlyPaths == {ReadOnlyPath}

\* lines 284-285: a missing dest is the source name plus '_updated.xlsx'
DefaultDest(excel_file, dest) ==
    IF dest = "" THEN excel_file \o "_updated.xlsx" ELSE dest

\* the mode without the row-0 rule
ResolveModeAsGiven(op, first_row) == op

\* lines 294-298: overwrite whose first entry has row 0 becomes append
ResolveMode(op, first_row) ==
    IF op = "w" /\ first_row = 0 THEN "a" ELSE op

\* lines 300-301: insert mode inserts one row before the first entry's row
PrepareSheet(ws, mode, first_row) ==
    IF mode = "i" THEN insert_rows(ws, first_row) ELSE ws

\* lines 303-304: append mode targets the row after the last one
PrepareRow(ws, mode, first_row) ==
    IF mode = "a" THEN max_row(ws) + 1 ELSE first_row

\* each entry's own row in every mode
EntryRowOwn(mode, cur_row, cell) ==
    LET r == PyGet(cell, "cell_row")
    IN IF r.ok THEN PyInt(r.v) ELSE r

\* lines 307-308: overwrite takes each entry's own row
EntryRow(mode, cur_row, cell) ==
    IF mode = "w"
    THEN LET r == PyGet(cell, "cell_row")
         IN IF r.ok THEN PyInt(r.v) ELSE r
    ELSE Ok(cur_row)

\* `if cell_style:` a None or an empty dict is no style
StyleGiven(cs) == "t" \notin DOMAIN cs /\ DOMAIN cs # {}

\* line 316: Font(color=...) is a new font, default but for the colour
ColorFont(color) == [DefaultFont EXCEPT !.color = color]

\* lines 318-343: a new default Font on which the given flags are set; a
\* missing key raises KeyError inside the try and leaves the default
FontStrike(cs) ==
    [color |-> NoColor,
     bold |-> IF "bold" \in DOMAIN cs THEN cs["bold"] ELSE DefaultFont.bold,
     italic |-> IF "italic" \in DOMAIN cs THEN cs["italic"] ELSE DefaultFont.italic,
     underline |-> IF "underline" \in DOMAIN cs
                   THEN (IF cs["underline"] THEN "single" ELSE "None")
                   ELSE DefaultFont.underline]

\* line 347: `if font_strike:` a Font object is always true
FontIsTrue(font) == TRUE

\* lines 314-353: the style of one written cell
ApplyStyle(cell, cs) ==
    IF ~StyleGiven(cs) THEN Ok(cell)
    ELSE IF "fontColor" \notin DOMAIN cs THEN Raise("KeyError")
    ELSE LET c1 == IF cs["fontColor"] # ""
                   THEN [cell EXCEPT !.font = ColorFont(cs["fontColor"])]
                   ELSE cell
             font_strike == FontStrike(cs)
             c2 == IF FontIsTrue(font_strike)
                   THEN [c1 EXCEPT !.font = font_strike]
                   ELSE c1
         IN IF "bgColor" \notin DOMAIN cs THEN Raise("KeyError")
            ELSE Ok(IF cs["bgColor"] # ""
                    THEN [c2 EXCEPT !.fill = cs["bgColor"]]
                    ELSE c2)

\* lines 306-353: one iteration of the loop over updates_matrix; gives the
\* sheet and row_no after it, or the exception it raises
WriteEntry(ws, mode, cur_row, cell, cs) ==
    LET r == EntryRow(mode, cur_row, cell)
        cg == PyGet(cell, "cell_col")
        c == IF cg.ok THEN PyInt(cg.v) ELSE cg
        v == PyGet(cell, "cell_value")
    IN IF ~r.ok THEN r
       ELSE IF ~c.ok THEN c
       ELSE IF r.v < 1 \/ c.v < 1 THEN Raise("ValueError")
       ELSE IF ~v.ok THEN v
       ELSE LET written == [CellAt(ws, r.v, c.v) EXCEPT !.value = v.v]
                styled == ApplyStyle(written, cs)
            IN IF ~styled.ok THEN styled
               ELSE Ok([sheet |-> PutCell(ws, r.v, c.v, styled.v), row_no |-> r.v])

ReplaceSheet(book, name, ws) == [book EXCEPT ![SheetPos(book, name)] = ws]

\* lines 283-289: the default destination and the load of the workbook
UpdBegin(excel_file, dest, updates_matrix, cell_style, sheet_name, op) ==
    /\ pc = "idle"
    /\ args' = [fn |-> "update_xl_content", excel_file |-> excel_file,
                dest_filename |-> dest, updates_matrix |-> updates_matrix,
                cell_style |-> cell_style, sheet_name |-> sheet_name, op |-> op]
    /\ dest_filename' = DefaultDest(excel_file, dest)
    /\ IF excel_file \in DOMAIN fs
       THEN /\ wb' = fs[excel_file]
            /\ pc' = "prepare"
            /\ ret' = ret
       ELSE /\ wb' = NoWb
            /\ pc' = "done"
            /\ ret' = Return(1, ErrAccessFile)
    /\ UNCHANGED <<fs, l_op, row_no, idx, saves, prev>>

\* the failure path saving what is in memory before it returns
UpdFailSaving ==
    /\ pc' = "done"
    /\ ret' = Return(1, ErrAccessSheet)
    /\ wb' = NoWb
    /\ fs' = (dest_filename :> Persist(wb)) @@ fs
    /\ saves' = saves + 1
    /\ UNCHANGED <<args, dest_filename, l_op, row_no, idx, prev>>

\* lines 355-356: any exception of the preparation or of the loop returns a
\* failed result; the save is not reached
UpdFail ==
    /\ pc' = "done"
    /\ ret' = Return(1, ErrAccessSheet)
    /\ wb' = NoWb
    /\ UNCHANGED <<fs, args, dest_filename, l_op, row_no, idx, saves, prev>>

\* lines 292-304: the sheet, the effective mode and the first target row
UpdPrepare ==
    /\ pc = "prepare"
    /\ LET first == IF Len(args.updates_matrix) > 0
                    THEN PyGet(args.updates_matrix[1], "cell_row")
                    ELSE Raise("IndexError")
           first_row == IF first.ok THEN PyInt(first.v) ELSE first
       IN IF HasSheet(wb, args.sheet_name) /\ first_row.ok
          THEN LET mode == ResolveMode(args.op, first_row.v)
                   ws == PrepareSheet(get_sheet_by_name(wb, args.sheet_name),
                                      mode, first_row.v)
               IN /\ l_op' = mode
                  /\ wb' = ReplaceSheet(wb, args.sheet_name, ws)
                  /\ row_no' = PrepareRow(ws, mode, first_row.v)
                  /\ idx' = 0
                  /\ pc' = "loop"
                  /\ UNCHANGED <<fs, args, ret, dest_filename, saves, prev>>
          ELSE UpdFail

\* lines 306-356: one entry of the batch is written and styled
UpdEntry ==
    /\ pc = "loop"
    /\ idx < Len(args.updates_matrix)
    /\ LET res == WriteEntry(get_sheet_by_name(wb, args.sheet_name), l_op, row_no,
                             args.updates_matrix[idx + 1], args.cell_style)
       IN IF res.ok
          THEN /\ wb' = ReplaceSheet(wb, args.sheet_name, res.v.sheet)
               /\ row_no' = res.v.row_no
               /\ idx' = idx + 1
               /\ UNCHANGED <<fs, pc, args, ret, dest_filename, l_op, saves, prev>>
          ELSE UpdFail

\* lines 358-365: the workbook is saved to the destination
UpdSave ==
    /\ pc = "loop"
    /\ idx = Len(args.updates_matrix)
    /\ pc' = "done"
    /\ wb' = NoWb
    /\ IF dest_filename \in ReadOnlyPaths
       THEN /\ ret' = Return(1, ErrUpdating)
            /\ UNCHANGED <<fs, saves>>
       ELSE /\ fs' = (dest_filename :> Persist(wb)) @@ fs
            /\ saves' = saves + 1
            /\ ret' = Return(0, EmptyDict)
    /\ UNCHANGED <<args, dest_filename, l_op, row_no, idx, prev>>

(***************************************************************************)
(* read_xl_content                                                         *)
(***************************************************************************)
\* range(a, b) as the sequence a, a+1, ..., b-1
PyRange(a, b) == [i \in 1..(IF b > a THEN b - a ELSE 0) |-> a + i - 1]

\* lines 216-224 (162-170 of search_excel.py): the start bound as given,
\* or 1 when read_range is None or has no such key
StartBound(range, key) ==
    IF "t" \notin DOMAIN range /\ key \in DOMAIN range THEN range[key] ELSE IntV(1)

\* an explicit 0 taken as "not given"
EndBoundZeroUnset(range, key) ==
    IF "t" \notin DOMAIN range /\ key \in DOMAIN range /\ PyInt(range[key]).ok
       /\ PyInt(range[key]).v # 0
    THEN PyInt(range[key]).v + 1
    ELSE 0

\* lines 226-234 (172-180 of search_excel.py): int(bound) + 1, the exclusive
\* end of the loop, or 0 when the bound is missing or is no number
EndBound(range, key) ==
    IF "t" \notin DOMAIN range /\ key \in DOMAIN range /\ PyInt(range[key]).ok
    THEN PyInt(range[key]).v + 1
    ELSE 0

\* an end beyond the current sheet's extent brought back to it
ReadResolveEndClamped(cur_end, extent) ==
    IF cur_end = 0 \/ cur_end > extent + 1 THEN extent + 1 ELSE cur_end

\* lines 251-255: an end of 0 is replaced by the current sheet's extent + 1
ReadResolveEnd(cur_end, extent) == IF cur_end = 0 THEN extent + 1 ELSE cur_end

tCol == <<"c", "o", "l", "_">>
tSheetIndex == <<"s", "h", "e", "e", "t", "_", "i", "n", "d", "e", "x", "_">>

\* the key numbered from 0
DictKeyZeroBased(ws, index_by_name, col) ==
    IF index_by_name THEN PyStr(CellAt(ws, 1, col).value) ELSE tCol \o IntStr(col - 1)

\* lines 257-262: the key of column col
DictKey(ws, index_by_name, col) ==
    IF index_by_name THEN PyStr(CellAt(ws, 1, col).value) ELSE tCol \o IntStr(col)

\* a key met twice keeps the earlier column
RowDictFirst(ws, index_by_name, row, cols) ==
    LET keys == {DictKey(ws, index_by_name, cols[j]) : j \in 1..Len(cols)}
        first(k) == CHOOSE j \in 1..Len(cols) :
                        /\ DictKey(ws, index_by_name, cols[j]) = k
                        /\ \A i \in 1..(j - 1) : DictKey(ws, index_by_name, cols[i]) # k
    IN [k \in keys |-> PyStr(CellAt(ws, row, cols[first(k)]).value)]

\* lines 264-266: the record of one row; a key met twice keeps the later column
RowDict(ws, index_by_name, row, cols) ==
    LET keys == {DictKey(ws, index_by_name, cols[j]) : j \in 1..Len(cols)}
        last(k) == Max({j \in 1..Len(cols) : DictKey(ws, index_by_name, cols[j]) = k})
    IN [k \in keys |-> PyStr(CellAt(ws, row, cols[last(k)]).value)]

\* lines 251-267: one sheet of the loop, from the end bounds left by the
\* sheets before it; ws.cell raises ValueError on a row or column below 1
ReadSheet(ws, index_by_name, start_row, start_col, cur_end_row, cur_end_col) ==
    LET end_row == ReadResolveEnd(cur_end_row, max_row(ws))
        end_col == ReadResolveEnd(cur_end_col, max_column(ws))
        cols == PyRange(start_col, end_col)
        rows == PyRange(start_row, end_row)
    IN IF Len(cols) > 0 /\ start_col < 1 /\ (index_by_name \/ Len(rows) > 0)
       THEN Raise("ValueError")
       ELSE IF Len(cols) > 0 /\ Len(rows) > 0 /\ start_row < 1
       THEN Raise("ValueError")
       ELSE Ok([end_row |-> end_row, end_col |-> end_col,
                records |-> [i \in 1..Len(rows) |->
                                RowDict(ws, index_by_name, rows[i], cols)]])

\* lines 246-268: the loop over sheet_names_list from its k-th name on
RECURSIVE ReadSheets(_, _, _, _, _, _, _, _, _)
ReadSheets(book, names, k, index_by_name, start_row, start_col, cur_end_row, cur_end_col, excelsheet) ==
    IF k > Len(names) THEN Ok(excelsheet)
    ELSE IF ~HasSheet(book, names[k]) THEN Raise("KeyError")
    ELSE LET one == ReadSheet(get_sheet_by_name(book, names[k]), index_by_name,
                              start_row, start_col, cur_end_row, cur_end_col)
             key == tSheetIndex \o IntStr(k - 1)
         IN IF ~one.ok THEN one
            ELSE ReadSheets(book, names, k + 1, index_by_name, start_row, start_col,
                            one.v.end_row, one.v.end_col,
                            (key :> one.v.records) @@ excelsheet)

\* lines 242-244 (184-186 of search_excel.py)
SheetNamesList(book, sheet_name) ==
    IF sheet_name = "" THEN get_sheet_names(book) ELSE <<sheet_name>>

\* lines 209-275: start bounds are used as given, and range() takes no str
read_xl_content(files, excel_file, index_by_name, read_range, sheet_name) ==
    LET start_row == StartBound(read_range, "start_row")
        start_col == StartBound(read_range, "start_col")
        end_row == EndBound(read_range, "end_row")
        end_col == EndBound(read_range, "end_col")
    IN IF excel_file \notin DOMAIN files THEN Return(1, ErrAccessFile)
       ELSE IF ~HasSheet(files[excel_file],
                         SheetNamesList(files[excel_file], sheet_name)[1])
       THEN Raised("KeyError")
       ELSE IF start_row.t # "int" \/ start_col.t # "int" THEN Raised("TypeError")
       ELSE LET res == ReadSheets(files[excel_file],
                                  SheetNamesList(files[excel_file], sheet_name), 1,
                                  index_by_name, start_row.v, start_col.v,
                                  end_row, end_col, EmptyFn)
            IN IF res.ok THEN Return(0, res.v) ELSE Raised(res.exc)

(***************************************************************************)
(* search_xl_content                                                       *)
(***************************************************************************)
UpperAlpha == <<"A", "B", "C", "D", "E", "F", "G", "H", "I", "J", "K", "L", "M",
                "N", "O", "P", "Q", "R", "S", "T", "U", "V", "W", "X", "Y", "Z">>
LowerAlpha == <<"a", "b", "c", "d", "e", "f", "g", "h", "i", "j", "k", "l", "m",
                "n", "o", "p", "q", "r", "s", "t", "u", "v", "w", "x", "y", "z">>

LowerChar(c) ==
    IF \E i \in 1..26 : UpperAlpha[i] = c
    THEN LowerAlpha[CHOOSE i \in 1..26 : UpperAlpha[i] = c]
    ELSE c

\* str.lower()
Lower(s) == [i \in 1..Len(s) |-> LowerChar(s[i])]

\* the characters the regular expression class \w matches
WordChars == {UpperAlpha[i] : i \in 1..26} \cup {LowerAlpha[i] : i \in 1..26}
                \cup Digits \cup {"_"}

\* token occurs in s from position k + 1 on
OccursAt(token, s, k) ==
    /\ k + Len(token) <= Len(s)
    /\ \A j \in 1..Len(token) : s[k + j] = token[j]

\* `token in s`
Contains(token, s) == \E k \in 0..Len(s) : OccursAt(token, s, k)

\* \b between positions k and k + 1 of s: a word character on exactly one side
Boundary(s, k) ==
    (k >= 1 /\ s[k] \in WordChars) # (k < Len(s) /\ s[k + 1] \in WordChars)

\* re.search(r'\b' + re.escape(token) + r'\b', s)
WordSearch(token, s) ==
    \E k \in 0..Len(s) :
        OccursAt(token, s, k) /\ Boundary(s, k) /\ Boundary(s, k + Len(token))

\* the whole-word test made before the equality test
FoundTokenWordFirst(token, value, opt_i, opt_w, opt_x) ==
    LET cell_val == IF opt_i THEN Lower(PyStr(value)) ELSE PyStr(value)
    IN IF opt_w THEN WordSearch(token, cell_val)
       ELSE IF opt_x THEN token = cell_val
       ELSE Contains(token, cell_val)

\* lines 199-209: does the cell match
FoundToken(token, value, opt_i, opt_w, opt_x) ==
    LET cell_val == IF opt_i THEN Lower(PyStr(value)) ELSE PyStr(value)
    IN IF opt_x THEN token = cell_val
       ELSE IF opt_w THEN WordSearch(token, cell_val)
       ELSE Contains(token, cell_val)

\* lines 191-195: as in read_xl_content
SearchResolveEnd(cur_end, extent) == IF cur_end = 0 THEN extent + 1 ELSE cur_end

\* the pairs <<row, col>> of the loops of lines 197-198, in the order visited
ScanOrder(rows, cols) ==
    [n \in 1..(Len(rows) * Len(cols)) |->
        <<rows[((n - 1) \div Len(cols)) + 1], cols[((n - 1) % Len(cols)) + 1]>>]

\* lines 191-213: one sheet of the loop
SearchSheet(ws, token, opt_i, opt_w, opt_x, start_row, start_col, cur_end_row, cur_end_col) ==
    LET end_row == SearchResolveEnd(cur_end_row, max_row(ws))
        end_col == SearchResolveEnd(cur_end_col, max_column(ws))
        order == ScanOrder(PyRange(start_row, end_row), PyRange(start_col, end_col))
        hit(p) == FoundToken(token, CellAt(ws, p[1], p[2]).value, opt_i, opt_w, opt_x)
    IN IF Len(order) > 0 /\ (start_row < 1 \/ start_col < 1)
       THEN Raise("ValueError")
       ELSE Ok([end_row |-> end_row, end_col |-> end_col,
                list |-> [i \in 1..Len(SelectSeq(order, hit)) |->
                            [row_no |-> SelectSeq(order, hit)[i][1],
                             col_no |-> SelectSeq(order, hit)[i][2]]]])

\* lines 188-213: the loop over sheet_names_list from its k-th name on
RECURSIVE SearchSheets(_, _, _, _, _, _, _, _, _, _, _)
SearchSheets(book, names, k, token, opt_i, opt_w, opt_x, start_row, start_col, ends, list) ==
    IF k > Len(names) THEN Ok(list)
    ELSE IF ~HasSheet(book, names[k]) THEN Raise("KeyError")
    ELSE LET one == SearchSheet(get_sheet_by_name(book, names[k]), token,
                                opt_i, opt_w, opt_x, start_row, start_col,
                                ends[1], ends[2])
         IN IF ~one.ok THEN one
            ELSE SearchSheets(book, names, k + 1, token, opt_i, opt_w, opt_x,
                              start_row, start_col,
                              <<one.v.end_row, one.v.end_col>>, list \o one.v.list)

ErrSearch == "Invalid search parameters specified"

InOptions(c, search_options) == \E i \in 1..Len(search_options) : search_options[i] = c

\* lines 145-218: every exception of the loop is turned into a failed result
search_xl_content(files, excel_file, search_token, search_range, search_options, sheet_name) ==
    LET opt_i == InOptions("i", search_options)
        opt_w == InOptions("w", search_options)
        opt_x == InOptions("x", search_options)
        token == IF opt_i THEN Lower(search_token) ELSE search_token
        start_row == StartBound(search_range, "start_row")
        start_col == StartBound(search_range, "start_col")
        end_row == EndBound(search_range, "end_row")
        end_col == EndBound(search_range, "end_col")
    IN IF excel_file \notin DOMAIN files THEN Return(1, ErrAccessFile)
       ELSE IF start_row.t # "int" \/ start_col.t # "int" THEN Return(1, ErrSearch)
       ELSE LET res == SearchSheets(files[excel_file],
                                    SheetNamesList(files[excel_file], sheet_name), 1,
                                    token, opt_i, opt_w, opt_x, start_row.v, start_col.v,
                                    <<end_row, end_col>>, <<>>)
            IN IF res.ok THEN Return(0, [list |-> res.v]) ELSE Return(1, ErrSearch)

(***************************************************************************)
(* The files and the arguments the calls are made with.                    *)
(***************************************************************************)
tName == <<"n", "a", "m", "e">>
tYear == <<"y", "e", "a", "r">>
tCole == <<"C", "o", "l", "e">>
tNicole == <<"N", "i", "c", "o", "l", "e">>
tCity == <<"c", "i", "t", "y">>
tCode == <<"c", "o", "d", "e">>
tWho == <<"w", "h", "o">>
tSJ == <<"S", "J">>
tACole == <<"a", " ", "c", "o", "l", "e">>
tOld == <<"o", "l", "d">>

Plain(v) == [EmptyCell EXCEPT !.value = v]
Bold(v) == [EmptyCell EXCEPT !.value = v, !.font.bold = TRUE]
Fancy(v) == [value |-> v,
             font |-> [color |-> "FF0000", bold |-> FALSE, italic |-> TRUE,
                       underline |-> "single"],
             fill |-> "FFFF00"]

\* three rows by two columns, cell (3, 2) never written
Employee ==
    [name |-> "Employee",
     cells |-> (<<1, 1>> :> Bold(StrV(tName))) @@ (<<1, 2>> :> Bold(StrV(tYear))) @@
               (<<2, 1>> :> Plain(StrV(tCole))) @@ (<<2, 2>> :> Plain(IntV(1999))) @@
               (<<3, 1>> :> Fancy(StrV(tNicole)))]

\* two rows by three columns
City ==
    [name |-> "City",
     cells |-> (<<1, 1>> :> Bold(StrV(tCity))) @@ (<<1, 2>> :> Bold(StrV(tCode))) @@
               (<<1, 3>> :> Bold(StrV(tWho))) @@
               (<<2, 1>> :> Plain(StrV(tSJ))) @@ (<<2, 2>> :> Plain(IntV(408))) @@
               (<<2, 3>> :> Plain(StrV(tACole)))]

\* two rows by two columns, both columns under the same header
Team ==
    [name |-> "Team",
     cells |-> (<<1, 1>> :> Bold(StrV(tName))) @@ (<<1, 2>> :> Bold(StrV(tName))) @@
               (<<2, 1>> :> Plain(StrV(tSJ))) @@ (<<2, 2>> :> Plain(StrV(tCole)))]

SampleBook == <<Employee, City, Team>>
OldBook == <<[name |-> "Employee", cells |-> (<<1, 1>> :> Plain(StrV(tOld)))]>>

SrcPath == "SampleBook.xlsx"
OutPath == "out.xlsx"

\* the source exists and no destination does; the source and old
\* destinations exist; nothing exists
InitialFiles ==
    {SrcPath :> SampleBook,
     (SrcPath :> SampleBook) @@ (OutPath :> OldBook) @@
        (DefaultDest(SrcPath, "") :> OldBook),
     (OutPath :> OldBook)}

RowArgs == {IntV(0), IntV(2), IntV(5)}
ColArgs == {IntV(0), IntV(1), IntV(2)}
ValueArgs == {IntV(7), StrV(tCole)}

\* entries whose row is a numeric string, is not a number, or is missing
OddEntries ==
    {[cell_row |-> StrV(<<"2">>), cell_col |-> IntV(1), cell_value |-> IntV(7)],
     [cell_row |-> StrV(<<"x">>), cell_col |-> IntV(1), cell_value |-> IntV(7)],
     [cell_col |-> IntV(1), cell_value |-> IntV(7)]}

Entries == [cell_row : RowArgs, cell_col : ColArgs, cell_value : ValueArgs] \cup OddEntries

Batches == UNION {[1..n -> Entries] : n \in 0..MaxBatch}

OptKey(k, V) == {EmptyFn} \cup {k :> v : v \in V}

\* every cell_style dict: each key absent or present with one of its values
Styles ==
    {fc @@ bg @@ b @@ i @@ u :
        fc \in OptKey("fontColor", {"", "00FF00"}),
        bg \in OptKey("bgColor", {"", "0000FF"}),
        b \in OptKey("bold", BOOLEAN),
        i \in OptKey("italic", BOOLEAN),
        u \in OptKey("underline", BOOLEAN)}

StyleEntry(r, c) == [cell_row |-> IntV(r), cell_col |-> IntV(c), cell_value |-> IntV(7)]
StyleBatches == {<<StyleEntry(3, 1)>>, <<StyleEntry(1, 2)>>, <<StyleEntry(5, 1)>>,
                 <<StyleEntry(3, 1), StyleEntry(2, 2)>>}

OpArgs == {"w", "a", "i"}
DestArgs == {"", SrcPath, OutPath, ReadOnlyPath}
SheetArgs == {"Employee", "City", "Nope"}

\* every read_range / search_range: None, or a dict with each bound absent
\* or given
RangeArgs ==
    {NoneV} \cup
    {sr @@ er @@ sc @@ ec :
        sr \in OptKey("start_row", {IntV(0), IntV(2)}),
        er \in OptKey("end_row", {IntV(n) : n \in 0..MaxEnd}),
        sc \in OptKey("start_col", {IntV(2)}),
        ec \in OptKey("end_col", {IntV(n) : n \in 0..MaxEnd})}

ReadSheetArgs == {"", "Employee", "City", "Team", "Nope"}

TokenArgs == {tCole, <<"c", "o", "l", "e">>, <<"o">>, <<"4", "0", "8">>}
OptionArgs == {<<>>, <<"i">>, <<"w">>, <<"x">>, <<"i", "w">>, <<"i", "x">>,
               <<"w", "x">>, <<"x", "w", "i">>, <<"z">>, <<"i", "z">>}

\* the cells a later task reads back from the destination of an update
ReadBackCells == (1..6) \X (1..3)

Init ==
    /\ fs \in InitialFiles
    /\ pc = "idle"
    /\ args = NoArgs
    /\ ret = NoReturn
    /\ wb = NoWb
    /\ dest_filename = ""
    /\ l_op = ""
    /\ row_no = 0
    /\ idx = 0
    /\ saves = 0
    /\ prev = NoArgs

\* the calls of update_xl_content: any batch without a style to the default
\* destination, a few batches to every destination, and a few batches with
\* every style
Update ==
    /\ pc = "idle"
    /\ \/ \E batch \in Batches, sheet_name \in SheetArgs, op \in OpArgs :
            UpdBegin(SrcPath, "", batch, NoneV, sheet_name, op)
       \/ \E dest \in DestArgs, batch \in StyleBatches \cup {<<>>},
             sheet_name \in SheetArgs, op \in OpArgs :
            UpdBegin(SrcPath, dest, batch, NoneV, sheet_name, op)
       \/ \E batch \in StyleBatches, cell_style \in Styles, op \in OpArgs :
            UpdBegin(SrcPath, "", batch, cell_style, "Employee", op)

\* a call of read_xl_content
ReadCall(excel_file, index_by_name, read_range, sheet_name) ==
    /\ args' = [fn |-> "read_xl_content", excel_file |-> excel_file,
                index_by_name |-> index_by_name, read_range |-> read_range,
                sheet_name |-> sheet_name]
    /\ ret' = read_xl_content(fs, excel_file, index_by_name, read_range, sheet_name)
    /\ pc' = "done"
    /\ UNCHANGED <<fs, wb, dest_filename, l_op, row_no, idx, saves>>

Read ==
    /\ pc = "idle"
    /\ \E index_by_name \in BOOLEAN, read_range \in RangeArgs, sheet_name \in ReadSheetArgs :
            ReadCall(SrcPath, index_by_name, read_range, sheet_name)
    /\ UNCHANGED prev

\* a call of search_xl_content
Search ==
    /\ pc = "idle"
    /\ \E search_token \in TokenArgs, search_range \in RangeArgs,
          search_options \in OptionArgs, sheet_name \in ReadSheetArgs :
            /\ args' = [fn |-> "search_xl_content", excel_file |-> SrcPath,
                        search_token |-> search_token, search_range |-> search_range,
                        search_options |-> search_options, sheet_name |-> sheet_name]
            /\ ret' = search_xl_content(fs, SrcPath, search_token, search_range,
                                        search_options, sheet_name)
    /\ pc' = "done"
    /\ UNCHANGED <<fs, wb, dest_filename, l_op, row_no, idx, saves, prev>>

\* the task after a successful update reads one cell of the sheet back from
\* the destination, with col_<n> keys
ReadBack ==
    /\ pc = "done"
    /\ args.fn = "update_xl_content"
    /\ ret.code = 0
    /\ prev' = [args |-> args, ret |-> ret]
    /\ \E p \in ReadBackCells :
            ReadCall(dest_filename, FALSE,
                     [start_row |-> IntV(p[1]), end_row |-> IntV(p[1]),
                      start_col |-> IntV(p[2]), end_col |-> IntV(p[2])],
                     args.sheet_name)

Next ==
    \/ Update
    \/ UpdPrepare
    \/ UpdEntry
    \/ UpdSave
    \/ Read
    \/ Search
    \/ ReadBack

Spec == Init /\ [][Next]_vars

(***************************************************************************)
(* What the claims are stated with.                                        *)
(***************************************************************************)
\* the arguments and the result of the update of this run
UpdArgs == IF args.fn = "update_xl_content" THEN args ELSE prev.args
UpdRet == IF args.fn = "update_xl_content" THEN ret ELSE prev.ret

\* the sheet as the source file holds it, and as the loaded workbook holds it
SheetOnDisk == get_sheet_by_name(fs[args.excel_file], args.sheet_name)
SheetInMemory == get_sheet_by_name(wb, args.sheet_name)

\* an update is in its loop with k entries applied and none has failed
InLoop == pc = "loop" /\ args.fn = "update_xl_content"

EntryCol(k) == PyInt(args.updates_matrix[k]["cell_col"]).v
FirstRow == PyInt(args.updates_matrix[1]["cell_row"]).v

\* the value of the last of the first n entries written to column c
LastValueAtCol(c, n) ==
    args.updates_matrix[Max({k \in 1..n : EntryCol(k) = c})]["cell_value"]

\* each of the idx entries applied so far sits in row r at its own column
AppliedInRow(r) ==
    \A k \in 1..idx :
        /\ <<r, EntryCol(k)>> \in DOMAIN SheetInMemory.cells
        /\ SheetInMemory.cells[<<r, EntryCol(k)>>].value = LastValueAtCol(EntryCol(k), idx)

\* the rows up to the source's max_row hold what they held
OldRowsKept ==
    /\ \A p \in DOMAIN SheetOnDisk.cells : /\ p \in DOMAIN SheetInMemory.cells
                                           /\ SheetInMemory.cells[p] = SheetOnDisk.cells[p]
    /\ \A p \in DOMAIN SheetInMemory.cells :
            p[1] <= max_row(SheetOnDisk) => p \in DOMAIN SheetOnDisk.cells

\* C1: in append mode the target row is max_row + 1 of the sheet as loaded,
\* fixed before the first entry; every entry applied sits in that row at its
\* own cell_col whatever its cell_row, and no cell of rows 1..max_row changes
C1_AppendOneRow ==
    (InLoop /\ args.op = "a") =>
        /\ row_no = max_row(SheetOnDisk) + 1
        /\ AppliedInRow(max_row(SheetOnDisk) + 1)
        /\ OldRowsKept

\* C1 witness: an append of two entries with different cell_row values and
\* different columns has been applied in full
C1_Witness ==
    /\ InLoop /\ args.op = "a" /\ idx = 2
    /\ args.updates_matrix[1]["cell_row"] # args.updates_matrix[2]["cell_row"]
    /\ EntryCol(1) # EntryCol(2)
    /\ max_row(SheetOnDisk) = 3

\* C2: an overwrite whose first entry has cell_row 0 is processed as an
\* append: every entry applied, whatever its own cell_row, sits in row
\* max_row + 1, and no cell is put in row 0
C2_DegradeToAppend ==
    (InLoop /\ args.op = "w" /\ FirstRow = 0) =>
        /\ l_op = "a"
        /\ row_no = max_row(SheetOnDisk) + 1
        /\ AppliedInRow(max_row(SheetOnDisk) + 1)
        /\ \A p \in DOMAIN SheetInMemory.cells : p[1] >= 1
        /\ OldRowsKept

\* C2 witness: an overwrite of two entries, the first with row 0 and the
\* second with row 2, has been applied in full
C2_Witness ==
    /\ InLoop /\ args.op = "w" /\ idx = 2
    /\ FirstRow = 0
    /\ args.updates_matrix[2]["cell_row"] = IntV(2)

\* C3: in insert mode with first-entry row R >= 1 the content of every row
\* r >= R is at row r + 1, the rows below R are unchanged, row R holds only
\* what the batch wrote, and every entry applied sits in row R at its own
\* cell_col
C3_InsertBefore ==
    (InLoop /\ args.op = "i" /\ FirstRow >= 1) =>
        /\ row_no = FirstRow
        /\ \A p \in DOMAIN SheetOnDisk.cells :
                LET q == IF p[1] >= FirstRow THEN <<p[1] + 1, p[2]>> ELSE p
                IN q \in DOMAIN SheetInMemory.cells
                   /\ SheetInMemory.cells[q] = SheetOnDisk.cells[p]
        /\ \A q \in DOMAIN SheetInMemory.cells :
                \/ q[1] < FirstRow /\ q \in DOMAIN SheetOnDisk.cells
                \/ q[1] > FirstRow /\ <<q[1] - 1, q[2]>> \in DOMAIN SheetOnDisk.cells
                \/ q[1] = FirstRow /\ \E k \in 1..idx : EntryCol(k) = q[2]
        /\ AppliedInRow(FirstRow)

\* C3 witness: an insert before row 2 of the three-row sheet has been
\* applied in full, with two entries of different cell_row
C3_Witness ==
    /\ InLoop /\ args.op = "i" /\ idx = 2 /\ FirstRow = 2
    /\ args.sheet_name = "Employee"
    /\ args.updates_matrix[2]["cell_row"] = IntV(5)
    /\ <<4, 1>> \in DOMAIN SheetInMemory.cells

\* the update before the read of this run, its batch and where it wrote
ReadAfterUpdate == "args" \in DOMAIN prev /\ args.fn = "read_xl_content"
PrevBatch == prev.args.updates_matrix
PrevRow(k) == PyInt(PrevBatch[k]["cell_row"]).v
PrevCol(k) == PyInt(PrevBatch[k]["cell_col"]).v
PrevLastValue(r, c) ==
    PrevBatch[Max({k \in 1..Len(PrevBatch) : PrevRow(k) = r /\ PrevCol(k) = c})]["cell_value"]

\* the text of the values the batches carry, and the col_<n> keys, written out
TextOf(v) == IF v.t = "int" THEN (IF v.v = 7 THEN <<"7">> ELSE <<"?">>) ELSE v.v
ColKey(c) == CASE c = 1 -> <<"c", "o", "l", "_", "1">>
               [] c = 2 -> <<"c", "o", "l", "_", "2">>
               [] c = 3 -> <<"c", "o", "l", "_", "3">>
SheetIndex0 == <<"s", "h", "e", "e", "t", "_", "i", "n", "d", "e", "x", "_", "0">>

\* C4: after a successful overwrite whose entries all have cell_row >= 1,
\* the destination holds at each entry's own (cell_row, cell_col) the value
\* last written there, and reading the 1x1 range of such a cell with
\* index_by_name false gives exactly one record {col_<c>: text of the value}
C4_RoundTrip ==
    (/\ ReadAfterUpdate
     /\ prev.args.op = "w"
     /\ \A k \in 1..Len(PrevBatch) : PrevRow(k) >= 1) =>
        LET sheet == get_sheet_by_name(fs[args.excel_file], args.sheet_name)
            r == args.read_range["start_row"].v
            c == args.read_range["start_col"].v
        IN /\ \A k \in 1..Len(PrevBatch) :
                /\ <<PrevRow(k), PrevCol(k)>> \in DOMAIN sheet.cells
                /\ sheet.cells[<<PrevRow(k), PrevCol(k)>>].value
                        = PrevLastValue(PrevRow(k), PrevCol(k))
           /\ (\E k \in 1..Len(PrevBatch) : PrevRow(k) = r /\ PrevCol(k) = c) =>
                ret = Return(0, SheetIndex0 :>
                                    <<ColKey(c) :> TextOf(PrevLastValue(r, c))>>)

\* C4 witness: two entries wrote different values to cell (2, 2), the cell is
\* read back from the destination and the read succeeded
C4_Witness ==
    /\ ReadAfterUpdate
    /\ prev.args.op = "w"
    /\ Len(PrevBatch) = 2
    /\ PrevRow(1) = 2 /\ PrevCol(1) = 2 /\ PrevRow(2) = 2 /\ PrevCol(2) = 2
    /\ PrevBatch[1]["cell_value"] # PrevBatch[2]["cell_value"]
    /\ args.read_range["start_row"] = IntV(2) /\ args.read_range["start_col"] = IntV(2)
    /\ ret.kind = "return" /\ ret.code = 0

\* a read or a search has returned a successful result
ReadOk == pc = "done" /\ args.fn = "read_xl_content" /\ ret.kind = "return" /\ ret.code = 0
SearchOk == pc = "done" /\ args.fn = "search_xl_content" /\ ret.kind = "return" /\ ret.code = 0
TheRange == IF args.fn = "read_xl_content" THEN args.read_range ELSE args.search_range
TheBook == fs[args.excel_file]
Given(key) == "t" \notin DOMAIN TheRange /\ key \in DOMAIN TheRange
GivenStart(key) == IF Given(key) THEN TheRange[key].v ELSE 1
TheToken == IF InOptions("i", args.search_options)
            THEN Lower(args.search_token) ELSE args.search_token

\* the matches of sheet ws alone, its range resolved from the bounds given
MatchesOfSheet(ws) ==
    SearchSheet(ws, TheToken, InOptions("i", args.search_options),
                InOptions("w", args.search_options), InOptions("x", args.search_options),
                GivenStart("start_row"), GivenStart("start_col"),
                EndBound(TheRange, "end_row"), EndBound(TheRange, "end_col")).v.list

RECURSIVE MatchesFrom(_)
MatchesFrom(k) == IF k > Len(TheBook) THEN <<>>
                  ELSE MatchesOfSheet(TheBook[k]) \o MatchesFrom(k + 1)

\* C5: over all sheets, each sheet's rows and columns are those of the range
\* resolved against that sheet's own max_row and max_column, whatever the
\* sheets visited before it
C5_PerSheetExtents ==
    /\ (ReadOk /\ args.sheet_name = "") =>
            \A k \in 1..Len(TheBook) :
                ret.val[tSheetIndex \o IntStr(k - 1)] =
                    ReadSheet(TheBook[k], args.index_by_name,
                              GivenStart("start_row"), GivenStart("start_col"),
                              EndBound(TheRange, "end_row"),
                              EndBound(TheRange, "end_col")).v.records
    /\ (SearchOk /\ args.sheet_name = "") => ret.val.list = MatchesFrom(1)

\* the sheet a call visits first
FirstSheet == get_sheet_by_name(TheBook, SheetNamesList(TheBook, args.sheet_name)[1])

\* the result covers rows start..last_row and columns start..last_col of the
\* first sheet: a read has one record per row, keyed col_<c> for each column
\* when index_by_name is false; a search of one sheet lists exactly the
\* matching cells of the rectangle
Covers(last_row, last_col) ==
    LET sr == GivenStart("start_row")
        sc == GivenStart("start_col")
    IN /\ ReadOk =>
            LET records == ret.val[SheetIndex0]
            IN /\ Len(records) = (IF last_row >= sr THEN last_row - sr + 1 ELSE 0)
               /\ ~args.index_by_name =>
                    \A n \in 1..Len(records) :
                        DOMAIN records[n] = {tCol \o IntStr(c) : c \in sc..last_col}
       /\ (SearchOk /\ args.sheet_name # "") =>
            LET hit(r, c) == FoundToken(TheToken, CellAt(FirstSheet, r, c).value,
                                        InOptions("i", args.search_options),
                                        InOptions("w", args.search_options),
                                        InOptions("x", args.search_options))
            IN /\ \A n \in 1..Len(ret.val.list) :
                    /\ ret.val.list[n].row_no \in sr..last_row
                    /\ ret.val.list[n].col_no \in sc..last_col
               /\ \A r \in sr..last_row, c \in sc..last_col :
                    hit(r, c) => \E n \in 1..Len(ret.val.list) :
                                    ret.val.list[n] = [row_no |-> r, col_no |-> c]

\* C6 as stated: start bounds default to 1, and an end bound that is absent
\* or given as 0 resolves to the sheet's max_row / max_column
C6_ZeroIsUnspecified ==
    (ReadOk \/ SearchOk) =>
        Covers(IF Given("end_row") /\ TheRange["end_row"].v # 0
               THEN TheRange["end_row"].v ELSE max_row(FirstSheet),
               IF Given("end_col") /\ TheRange["end_col"].v # 0
               THEN TheRange["end_col"].v ELSE max_column(FirstSheet))

\* C6 as amended: start bounds default to 1; an end bound resolves to the
\* max_row / max_column of the first sheet visited only when it is absent,
\* and a given bound, 0 included, is used as given (0: nothing is covered)
C6_AbsentIsUnspecified ==
    (ReadOk \/ SearchOk) =>
        Covers(IF Given("end_row") THEN TheRange["end_row"].v ELSE max_row(FirstSheet),
               IF Given("end_col") THEN TheRange["end_col"].v ELSE max_column(FirstSheet))

\* C6 witness: a read of one sheet with end_row given as 0 and no end_col
\* succeeded and gave no record
C6_Witness ==
    /\ ReadOk /\ args.sheet_name = "Employee"
    /\ Given("end_row") /\ TheRange["end_row"] = IntV(0)
    /\ ~Given("end_col") /\ ~Given("start_row")
    /\ ret.val[SheetIndex0] = <<>>

\* the target row of the k-th entry of the running update
TargetRow(k) == IF l_op = "w" THEN PyInt(args.updates_matrix[k]["cell_row"]).v ELSE row_no

\* the sheet after the preparation of the running update, before any entry
SheetPrepared == PrepareSheet(SheetOnDisk, l_op, FirstRow)

\* C7: for every cell written with a cell_style, bold, italic and underline
\* are on when given true, off when given false and as they were on the cell
\* before the mutation when absent; the font colour is as it was when none
\* is given, and a given font colour is on the cell
C7_TriStateStyle ==
    (InLoop /\ StyleGiven(args.cell_style)) =>
        \A k \in 1..idx :
            LET cs == args.cell_style
                now == SheetInMemory.cells[<<TargetRow(k), EntryCol(k)>>].font
                was == CellAt(SheetPrepared, TargetRow(k), EntryCol(k)).font
            IN /\ now.bold = (IF "bold" \in DOMAIN cs THEN cs["bold"] ELSE was.bold)
               /\ now.italic = (IF "italic" \in DOMAIN cs THEN cs["italic"] ELSE was.italic)
               /\ now.underline = (IF "underline" \in DOMAIN cs
                                   THEN (IF cs["underline"] THEN "single" ELSE "None")
                                   ELSE was.underline)
               /\ now.color = (IF "fontColor" \in DOMAIN cs /\ cs["fontColor"] # ""
                               THEN cs["fontColor"] ELSE was.color)

\* the batch of the update is one the code accepts without a style
IntOk(d, key) == key \in DOMAIN d /\ PyInt(d[key]).ok
ValidBatch(batch, op) ==
    /\ Len(batch) >= 1
    /\ \A k \in 1..Len(batch) :
            /\ IntOk(batch[k], "cell_row") /\ IntOk(batch[k], "cell_col")
            /\ "cell_value" \in DOMAIN batch[k]
            /\ PyInt(batch[k]["cell_col"]).v >= 1
    /\ op = "i" => PyInt(batch[1]["cell_row"]).v >= 1
    /\ op = "w" => \/ PyInt(batch[1]["cell_row"]).v = 0
                   \/ \A k \in 1..Len(batch) : PyInt(batch[k]["cell_row"]).v >= 1

\* C8: with a cell_style dict that lacks any of its optional fields, the
\* update of an existing sheet with a valid batch returns success, has
\* written every value and has saved the destination
C8_StyleNeverFails ==
    (/\ pc = "done" /\ args.fn = "update_xl_content"
     /\ "t" \notin DOMAIN args.cell_style
     /\ args.excel_file \in DOMAIN fs
     /\ HasSheet(fs[args.excel_file], args.sheet_name)
     /\ ValidBatch(args.updates_matrix, args.op)
     /\ dest_filename \notin ReadOnlyPaths) =>
        /\ ret.code = 0
        /\ saves = 1
        /\ dest_filename \in DOMAIN fs
        /\ \A k \in 1..Len(args.updates_matrix) :
                \E p \in DOMAIN get_sheet_by_name(fs[dest_filename], args.sheet_name).cells :
                    /\ p[2] = EntryCol(k)
                    /\ get_sheet_by_name(fs[dest_filename], args.sheet_name).cells[p].value
                            = args.updates_matrix[k]["cell_value"]

\* the sheet with the entries k.. of the batch applied, when none fails
RECURSIVE ApplyFrom(_, _, _, _, _, _)
ApplyFrom(ws, mode, cur_row, batch, k, cs) ==
    IF k > Len(batch) THEN ws
    ELSE LET one == WriteEntry(ws, mode, cur_row, batch[k], cs).v
         IN ApplyFrom(one.sheet, mode, one.row_no, batch, k + 1, cs)

\* the workbook book with the whole batch of update a applied
FullyUpdated(book, a) ==
    LET first == PyInt(a.updates_matrix[1]["cell_row"]).v
        mode == ResolveMode(a.op, first)
        ws == PrepareSheet(get_sheet_by_name(book, a.sheet_name), mode, first)
    IN ReplaceSheet(book, a.sheet_name,
                    ApplyFrom(ws, mode, PrepareRow(ws, mode, first),
                              a.updates_matrix, 1, a.cell_style))

HasUpdate == args.fn = "update_xl_content" \/ "args" \in DOMAIN prev

\* C9: the destination is saved at most once, only by an update that has
\* applied its whole batch and returns success, and then holds the whole
\* batch; before that, and in every update that fails, no file is written
C9_AllOrNothing ==
    /\ saves <= 1
    /\ saves = 0 => fs \in InitialFiles
    /\ pc \in {"idle", "prepare", "loop"} => saves = 0
    /\ (pc = "done" /\ HasUpdate /\ UpdRet.code # 0) => saves = 0
    /\ saves = 1 =>
            /\ pc = "done" /\ HasUpdate /\ UpdRet.code = 0
            /\ idx = Len(UpdArgs.updates_matrix)
            /\ \E f0 \in InitialFiles :
                    /\ UpdArgs.excel_file \in DOMAIN f0
                    /\ fs = (dest_filename :>
                            Persist(FullyUpdated(f0[UpdArgs.excel_file], UpdArgs))) @@ f0

\* C9 witness: an update failed on its second entry after the first was
\* applied in memory, and its destination does not exist
C9_Witness ==
    /\ pc = "done" /\ args.fn = "update_xl_content"
    /\ ret.code = 1 /\ idx = 1 /\ Len(args.updates_matrix) = 2
    /\ dest_filename \notin DOMAIN fs

\* C10: whatever the dest argument, the source file holds after the update
\* what it held before, and the destination written is not the source path
C10_SourceNeverModified ==
    HasUpdate =>
        /\ UpdArgs.excel_file \in DOMAIN fs => fs[UpdArgs.excel_file] = SampleBook
        /\ saves = 1 => dest_filename # UpdArgs.excel_file

\* a call that named a sheet the workbook it loaded does not have
MissingSheetCall ==
    /\ pc = "done"
    /\ args.fn \in {"read_xl_content", "search_xl_content", "update_xl_content"}
    /\ args.excel_file \in DOMAIN fs
    /\ args.sheet_name # ""
    /\ ~HasSheet(fs[args.excel_file], args.sheet_name)

\* C11: a call of read_xl_content, search_xl_content or update_xl_content
\* with a non-empty sheet_name that the loaded workbook does not have returns
\* a failed status with a message, and raises nothing
C11_MissingSheetFails ==
    MissingSheetCall =>
        /\ ret.kind = "return"
        /\ ret.code = 1
        /\ ret.val \in {ErrAccessFile, ErrAccessSheet, ErrUpdating, ErrSearch}

\* the sheets a read or a search visits, in the order visited, and the last
\* row and column of the range it resolved: the bound given, or the extent of
\* the first sheet visited
Selected == IF args.sheet_name = "" THEN TheBook ELSE <<FirstSheet>>
LastRow == IF Given("end_row") THEN TheRange["end_row"].v ELSE max_row(FirstSheet)
LastCol == IF Given("end_col") THEN TheRange["end_col"].v ELSE max_column(FirstSheet)

\* a call whose file and sheet exist and whose range starts at 1 or above
WellFormedCall(fn) ==
    /\ pc = "done" /\ args.fn = fn
    /\ args.excel_file \in DOMAIN fs
    /\ args.sheet_name = "" \/ HasSheet(TheBook, args.sheet_name)
    /\ GivenStart("start_row") >= 1 /\ GivenStart("start_col") >= 1

\* t occurs in s; t occurs in s with no word character next to it
IsSubstring(t, s) == \E k \in 0..(Len(s) - Len(t)) : SubSeq(s, k + 1, k + Len(t)) = t
IsWholeWord(t, s) ==
    \E k \in 0..(Len(s) - Len(t)) :
        /\ SubSeq(s, k + 1, k + Len(t)) = t
        /\ k = 0 \/ s[k] \notin WordChars
        /\ k + Len(t) = Len(s) \/ s[k + Len(t) + 1] \notin WordChars

\* the policy the option characters select, applied to cell (r, c) of ws
Opt(ch) == \E n \in 1..Len(args.search_options) : args.search_options[n] = ch
PolicyMatch(ws, r, c) ==
    LET text == PyStr(CellAt(ws, r, c).value)
        t == IF Opt("i") THEN Lower(args.search_token) ELSE args.search_token
        s == IF Opt("i") THEN Lower(text) ELSE text
    IN CASE Opt("x") -> s = t
         [] Opt("w") /\ ~Opt("x") -> IsWholeWord(t, s)
         [] OTHER -> IsSubstring(t, s)

\* the matching cells of row r from column c on, of the rows from r on, and
\* of the selected sheets from the k-th on
RECURSIVE RowHits(_, _, _)
RowHits(ws, r, c) ==
    IF c > LastCol THEN <<>>
    ELSE (IF PolicyMatch(ws, r, c) THEN <<[row_no |-> r, col_no |-> c]>> ELSE <<>>)
            \o RowHits(ws, r, c + 1)
RECURSIVE SheetHits(_, _)
SheetHits(ws, r) ==
    IF r > LastRow THEN <<>>
    ELSE RowHits(ws, r, GivenStart("start_col")) \o SheetHits(ws, r + 1)
RECURSIVE BookHits(_)
BookHits(k) ==
    IF k > Len(Selected) THEN <<>>
    ELSE SheetHits(Selected[k], GivenStart("start_row")) \o BookHits(k + 1)

\* C12: a search returns success with exactly the {row_no, col_no} of the
\* cells that match, sheet after sheet in selection order and row-major
\* within the resolved range; x is equality (w ignored beside it), w alone
\* is a whole-word occurrence, neither is a substring occurrence, i
\* lowercases token and text, other option characters change nothing, and
\* no match gives the empty list
C12_SearchSequence ==
    WellFormedCall("search_xl_content") => ret = Return(0, [list |-> BookHits(1)])

\* C12 witness: "Cole" searched with "ix" over all sheets matched the cells
\* holding "Cole" and not the one holding "Nicole"
C12_Witness ==
    /\ SearchOk /\ args.sheet_name = "" /\ args.search_range = NoneV
    /\ args.search_token = tCole /\ args.search_options = <<"i", "x">>
    /\ ret.val.list = <<[row_no |-> 2, col_no |-> 1], [row_no |-> 2, col_no |-> 2]>>

\* the text of cell (r, c) of ws and the key of column c in a record
CellText(ws, r, c) == PyStr(CellAt(ws, r, c).value)
KeyOf(ws, c) == IF args.index_by_name THEN CellText(ws, 1, c) ELSE tCol \o IntStr(c)

\* the last column of the range with the key of column c
LastWithKey(ws, c) == Max({d \in GivenStart("start_col")..LastCol : KeyOf(ws, d) = KeyOf(ws, c)})

\* the result of a read has one key sheet_index_<N> per selected sheet, N
\* counted from 0 in selection order, holding one record per row of the
\* resolved range in ascending order, each record with exactly the keys of
\* the columns of the range and, under the key of column c, the text of the
\* cell of its row in column c, or in the last column of the range with the
\* key of column c
ProjectionBy(last_wins) ==
    LET sr == GivenStart("start_row")
        sc == GivenStart("start_col")
        Source(ws, c) == IF last_wins THEN LastWithKey(ws, c) ELSE c
    IN /\ ret.kind = "return" /\ ret.code = 0
       /\ DOMAIN ret.val = {tSheetIndex \o IntStr(n - 1) : n \in 1..Len(Selected)}
       /\ \A n \in 1..Len(Selected) :
            LET ws == Selected[n]
                records == ret.val[tSheetIndex \o IntStr(n - 1)]
            IN /\ Len(records) = (IF LastRow >= sr THEN LastRow - sr + 1 ELSE 0)
               /\ \A i \in 1..Len(records) :
                    /\ DOMAIN records[i] = {KeyOf(ws, c) : c \in sc..LastCol}
                    /\ \A c \in sc..LastCol :
                            records[i][KeyOf(ws, c)] = CellText(ws, sr + i - 1, Source(ws, c))

\* C13 as stated: each record of a read holds, for every column c of the
\* range, the text of the cell of its row in column c under that column's
\* key (the text of cell (1, c) when index_by_name, else col_<c>), one
\* record per row from start_row on, row 1 included
C13_Projection == WellFormedCall("read_xl_content") => ProjectionBy(FALSE)

\* C13 as amended: the same, but columns of the range whose keys coincide
\* share one entry of the record, which holds the text of the last of them
C13_ProjectionLastWins == WellFormedCall("read_xl_content") => ProjectionBy(TRUE)

\* C13 witness: the sheet whose two columns have the same header was read by
\* name from row 1; each of its two records has the single key "name", the
\* second holding the text of column 2
C13_Witness ==
    /\ ReadOk /\ args.sheet_name = "Team" /\ args.index_by_name
    /\ args.read_range = NoneV
    /\ ret.val = (SheetIndex0 :> <<tName :> tName, tName :> tCole>>)

\* cell (r, c) of ws holds no value: it was never written, or holds None
NoValue(ws, r, c) == <<r, c>> \notin DOMAIN ws.cells \/ ws.cells[<<r, c>>].value = NoneV

\* a read given end bounds uses them as given, beyond the sheet's extents
\* too: each selected sheet has a record for every row from start_row to a
\* given end_row, each record a key for every column from start_col to a
\* given end_col, and a cell of the range holding no value is read as text
ReadsUnclamped(text) ==
    LET sr == GivenStart("start_row")
        sc == GivenStart("start_col")
    IN /\ ret.kind = "return" /\ ret.code = 0
       /\ \A n \in 1..Len(Selected) :
            LET ws == Selected[n]
                records == ret.val[tSheetIndex \o IntStr(n - 1)]
            IN /\ Given("end_row") =>
                    Len(records) = (IF TheRange["end_row"].v >= sr
                                    THEN TheRange["end_row"].v - sr + 1 ELSE 0)
               /\ \A i \in 1..Len(records) :
                    /\ Given("end_col") =>
                            \A c \in sc..TheRange["end_col"].v :
                                KeyOf(ws, c) \in DOMAIN records[i]
                    /\ \A c \in sc..LastCol :
                            (c = LastWithKey(ws, c) /\ NoValue(ws, sr + i - 1, c)) =>
                                records[i][KeyOf(ws, c)] = text

\* C14 as stated: end bounds beyond the sheet's extents are used as given,
\* and every cell beyond the populated area or holding no value is read as
\* the empty string
C14_EmptyString == WellFormedCall("read_xl_content") => ReadsUnclamped(<<>>)

\* C14 as amended: the same, but such a cell is read as the text 'None'
C14_NoneText ==
    WellFormedCall("read_xl_content") => ReadsUnclamped(<<"N", "o", "n", "e">>)

\* C14 witness: the two-row sheet was read with end_row given as 3, and the
\* third record holds 'None' under each of its three columns
C14_Witness ==
    /\ ReadOk /\ args.sheet_name = "City" /\ ~args.index_by_name
    /\ Given("end_row") /\ TheRange["end_row"] = IntV(3) /\ max_row(FirstSheet) = 2
    /\ ~Given("end_col") /\ ~Given("start_row") /\ ~Given("start_col")
    /\ Len(ret.val[SheetIndex0]) = 3
    /\ ret.val[SheetIndex0][3] = [k \in {ColKey(1), ColKey(2), ColKey(3)} |->
                                    <<"N", "o", "n", "e">>]

====
